---- MODULE Spec2Model ----
(***************************************************************************)
(* Model of src/formatting_layer.rs (tracing-bunyan-formatter): the        *)
(* BunyanFormattingLayer, which turns span enter/exit callbacks and events *)
(* into newline-delimited Bunyan records written to a MakeWriter sink.     *)
(*                                                                         *)
(* Bytes are modelled as tokens: "{", one token per serialized map entry,  *)
(* "}" and the line terminator.  A record buffer is a sequence of tokens,  *)
(* the sink is the sequence of tokens written so far.                      *)
(***************************************************************************)
EXTENDS Integers, Sequences, FiniteSets, TLC

VARIABLES
    layer,      \* the BunyanFormattingLayer's fields (make_writer is the sink)
    spans,      \* the registry: live span id -> span
    clock,      \* wall clock read by chrono::Utc::now()
    sink,       \* everything written through writers of make_writer
    log,        \* one entry per callback that ran to its end (or panicked)
    panicked,   \* a callback of the sequential program panicked
    thr         \* concurrent program: state of each thread's callback

vars == <<layer, spans, clock, sink, log, panicked, thr>>

-----------------------------------------------------------------------------
(* Bounds *)

MaxCalls == 2       \* callbacks delivered in the sequential program
NThreads == 2       \* threads of the concurrent program, one callback each
MaxTime == 1        \* clock ticks
MaxFields == 2      \* fields an event carries in the record-construction runs

-----------------------------------------------------------------------------
(* Core field keys, lines 15-22 *)

BUNYAN_VERSION == "v"
LEVEL == "level"
NAME == "name"
HOSTNAME == "hostname"
PID == "pid"
TIME == "time"
MESSAGE == "msg"

-----------------------------------------------------------------------------
(* JSON values (serde_json::Value) and serialized tokens *)

StrV(s) == [ty |-> "str", s |-> s, n |-> 0]
NumV(n) == [ty |-> "num", s |-> "", n |-> n]
NullV == [ty |-> "null", s |-> "", n |-> 0]
\* a value whose serialization returns Err (serialize_entry's error path)
Unserializable == [ty |-> "unserializable", s |-> "", n |-> 0]

Open == [tok |-> "{", key |-> "", val |-> NullV]
Close == [tok |-> "}", key |-> "", val |-> NullV]
NL == [tok |-> "\n", key |-> "", val |-> NullV]
Entry(k, v) == [tok |-> "entry", key |-> k, val |-> v]

\* a key/value pair held by a JsonStorage
KV(k, v) == [key |-> k, val |-> v]

-----------------------------------------------------------------------------
(* Strings.  Span names are kept as tuples of one-character strings so     *)
(* that to_uppercase is computed character by character.                   *)

RECURSIVE Str(_)
Str(cs) == IF cs = <<>> THEN "" ELSE Head(cs) \o Str(Tail(cs))

UpperChar(c) ==
    CASE c = "a" -> "A"
      [] c = "b" -> "B"
      [] c = "e" -> "E"
      [] c = "q" -> "Q"
      [] c = "r" -> "R"
      [] c = "s" -> "S"
      [] c = "t" -> "T"
      [] c = "u" -> "U"
      [] OTHER -> c

to_uppercase(cs) == [i \in 1..Len(cs) |-> UpperChar(cs[i])]

\* chrono's DateTime<Utc>::to_rfc3339 of the instant `now` seconds after the epoch
to_rfc3339(now) == "1970-01-01T00:00:0" \o ToString(now) \o "+00:00"

-----------------------------------------------------------------------------
(* Levels *)

Levels == {"ERROR", "WARN", "INFO", "DEBUG", "TRACE"}

\* tracing_log::AsLog for tracing_core::Level
as_log(level) ==
    CASE level = "ERROR" -> "Error"
      [] level = "WARN" -> "Warn"
      [] level = "INFO" -> "Info"
      [] level = "DEBUG" -> "Debug"
      [] level = "TRACE" -> "Trace"

to_bunyan_level_as_syslog(level) ==
    CASE as_log(level) = "Error" -> 50
      [] as_log(level) = "Warn" -> 40
      [] as_log(level) = "Info" -> 30
      [] as_log(level) = "Debug" -> 30
      [] as_log(level) = "Trace" -> 10

to_bunyan_level(level) ==
    CASE as_log(level) = "Error" -> 50
      [] as_log(level) = "Warn" -> 40
      [] as_log(level) = "Info" -> 30
      [] as_log(level) = "Debug" -> 20
      [] as_log(level) = "Trace" -> 10

-----------------------------------------------------------------------------
(* Record types and the span-context label *)

Type_fmt(ty) ==
    CASE ty = "EnterSpan" -> "START"
      [] ty = "ExitSpan" -> "END"
      [] ty = "Event" -> "EVENT"

format_span_context_raw_name(span, ty) ==
    "[" \o Str(span.name) \o " - " \o Type_fmt(ty) \o "]"

format_span_context(span, ty) ==
    "[" \o Str(to_uppercase(span.name)) \o " - " \o Type_fmt(ty) \o "]"

-----------------------------------------------------------------------------
(* The field store (JsonStorage): an ordered key -> value mapping, kept as *)
(* a sequence of pairs with distinct keys.                                 *)

values(storage) == storage.values

HasKey(fields, key) == \E i \in 1..Len(fields) : fields[i].key = key

\* HashMap::get: the value stored under key (callers check HasKey first)
Get(fields, key) ==
    fields[CHOOSE i \in 1..Len(fields) : fields[i].key = key].val

\* Option<JsonStorage> of a span's extensions
NoStorage == [present |-> FALSE, values |-> <<>>]
Storage(fields) == [present |-> TRUE, values |-> fields]

\* Option<SpanRef>
NoSpanRef == [present |-> FALSE, name |-> <<>>, level |-> "INFO",
              parent |-> 0, storage |-> NoStorage]
SpanRef(span) == [present |-> TRUE, name |-> span.name, level |-> span.level,
                  parent |-> span.parent, storage |-> span.storage]

-----------------------------------------------------------------------------
(* Serialization.  A map serializer is the buffer written so far and       *)
(* whether an entry has failed; `?` makes every later step a no-op.        *)

serialize_map == [buffer |-> <<Open>>, ok |-> TRUE]

serialize_entry(ms, key, value) ==
    IF ~ms.ok THEN ms
    ELSE IF value = Unserializable THEN [ms EXCEPT !.ok = FALSE]
    ELSE [ms EXCEPT !.buffer = Append(@, Entry(key, value))]

map_end(ms) ==
    IF ~ms.ok THEN ms ELSE [ms EXCEPT !.buffer = Append(@, Close)]

\* the `for (key, value) in ...values()` loops
RECURSIVE serialize_entries(_, _)
serialize_entries(ms, fields) ==
    IF fields = <<>> THEN ms
    ELSE serialize_entries(serialize_entry(ms, Head(fields).key, Head(fields).val),
                           Tail(fields))

serialize_bunyan_core_fields_level_first(self, ms, message, level, now) ==
    LET m1 == serialize_entry(ms, BUNYAN_VERSION, NumV(self.bunyan_version))
        m2 == serialize_entry(m1, NAME, StrV(self.name))
        m3 == serialize_entry(m2, LEVEL, NumV(to_bunyan_level(level)))
        m4 == serialize_entry(m3, MESSAGE, StrV(message))
        m5 == serialize_entry(m4, HOSTNAME, StrV(self.hostname))
        m6 == serialize_entry(m5, PID, NumV(self.pid))
    IN  serialize_entry(m6, TIME, StrV(to_rfc3339(now)))

serialize_bunyan_core_fields(self, ms, message, level, now) ==
    LET m1 == serialize_entry(ms, BUNYAN_VERSION, NumV(self.bunyan_version))
        m2 == serialize_entry(m1, NAME, StrV(self.name))
        m3 == serialize_entry(m2, MESSAGE, StrV(message))
        m4 == serialize_entry(m3, LEVEL, NumV(to_bunyan_level(level)))
        m5 == serialize_entry(m4, HOSTNAME, StrV(self.hostname))
        m6 == serialize_entry(m5, PID, NumV(self.pid))
    IN  serialize_entry(m6, TIME, StrV(to_rfc3339(now)))

\* Result<Vec<u8>, io::Error>: on Err the buffer is what had been written
\* when the error occurred; the callers drop it.
serialize_span(self, span, ty, now) ==
    LET core == serialize_bunyan_core_fields(
                    self, serialize_map, format_span_context(span, ty),
                    span.level, now)
        ctx == IF span.storage.present
               THEN serialize_entries(core, values(span.storage))
               ELSE core
    IN  map_end(ctx)

-----------------------------------------------------------------------------
(* Events *)

\* event.record(&mut event_visitor) on a fresh JsonStorage: the visitor
\* holds the event's fields
event_record(event) == Storage(event.fields)

format_event_message_any_message(current_span, event, event_visitor) ==
    LET fields == values(event_visitor)
        message == IF HasKey(fields, "message")
                   THEN Get(fields, "message").s
                   ELSE event.target
    IN  IF current_span.present
        THEN format_span_context(current_span, "Event") \o " " \o message
        ELSE message

format_event_message(current_span, event, event_visitor) ==
    LET fields == values(event_visitor)
        message == IF HasKey(fields, "message") /\ Get(fields, "message").ty = "str"
                   THEN Get(fields, "message").s
                   ELSE event.target
    IN  IF current_span.present
        THEN format_span_context(current_span, "Event") \o " " \o message
        ELSE message

NotMessage_keep_all(kv) == TRUE

NotMessage(kv) == kv.key # "message"

format_with_ancestors(self, current_span, event, event_visitor, now) ==
    LET message == format_event_message(current_span, event, event_visitor)
        core == serialize_bunyan_core_fields(
                    self, serialize_map, message, event.level, now)
        own == serialize_entries(core, SelectSeq(values(event_visitor), NotMessage))
        ctx == IF current_span.present /\ current_span.storage.present
               THEN serialize_entries(own, values(current_span.storage))
               ELSE own
        up == IF current_span.present /\ current_span.parent \in DOMAIN spans
                 /\ spans[current_span.parent].storage.present
              THEN serialize_entries(ctx, values(spans[current_span.parent].storage))
              ELSE ctx
    IN  map_end(up)

\* the closure `format` of on_event
format(self, current_span, event, event_visitor, now) ==
    LET message == format_event_message(current_span, event, event_visitor)
        core == serialize_bunyan_core_fields(
                    self, serialize_map, message, event.level, now)
        own == serialize_entries(core, SelectSeq(values(event_visitor), NotMessage))
        ctx == IF current_span.present /\ current_span.storage.present
               THEN serialize_entries(own, values(current_span.storage))
               ELSE own
    IN  map_end(ctx)

-----------------------------------------------------------------------------
(* Emission.  emit returns what it asks of the sink: the writers it takes  *)
(* from make_writer and the write_all calls it makes, in order.            *)

emit_two_writes(self, buffer) ==
    [handles |-> 1, writes |-> <<buffer, <<NL>>>>]

emit_no_newline(self, buffer) ==
    [handles |-> 1, writes |-> <<buffer>>]

emit(self, buffer) ==
    [handles |-> 1, writes |-> <<Append(buffer, NL)>>]

NoEmit == [handles |-> 0, writes |-> <<>>]

\* One write_all call on a writer of the sink.  The sink's write is atomic:
\* it appends all the bytes, or fails and appends nothing.
write_all(snk, bytes, res) == IF res = "ok" THEN snk \o bytes ELSE snk

\* A callback's write_all calls run against the sink; the result of the
\* first is res.  emit returns at the first Err.
RECURSIVE Performed(_, _)
Performed(writes, res) ==
    IF writes = <<>> THEN <<>>
    ELSE IF res = "ok"
         THEN <<[bytes |-> Head(writes), res |-> "ok"]>> \o Performed(Tail(writes), res)
         ELSE <<[bytes |-> Head(writes), res |-> "err"]>>

RECURSIVE DoWrites(_, _)
DoWrites(snk, done) ==
    IF done = <<>> THEN snk
    ELSE DoWrites(write_all(snk, Head(done).bytes, Head(done).res), Tail(done))

-----------------------------------------------------------------------------
(* The three callbacks, as what one invocation does: whether it returns or *)
(* panics, the Result of serialization, and what it asks of the sink.      *)

Exec(outcome, r, e) ==
    [outcome |-> outcome, ok |-> r.ok, buffer |-> r.buffer,
     handles |-> e.handles, writes |-> e.writes]

Panic == Exec("panicked", [ok |-> FALSE, buffer |-> <<>>], NoEmit)

on_event_emit_on_error(self, event, current_span, now) ==
    LET event_visitor == event_record(event)
        result == format(self, current_span, event, event_visitor, now)
    IN  Exec("returned", result, emit(self, result.buffer))

on_event(self, event, current_span, now) ==
    LET event_visitor == event_record(event)
        result == format(self, current_span, event, event_visitor, now)
    IN  IF result.ok
        THEN Exec("returned", result, emit(self, result.buffer))
        ELSE Exec("returned", result, NoEmit)

on_enter_ignore_missing(self, found, span, now) ==
    IF ~found THEN Exec("returned", [ok |-> FALSE, buffer |-> <<>>], NoEmit)
    ELSE LET result == serialize_span(self, span, "EnterSpan", now)
         IN  IF result.ok
             THEN Exec("returned", result, emit(self, result.buffer))
             ELSE Exec("returned", result, NoEmit)

\* ctx.span(id) is `found`; .expect(..) panics on None
on_enter(self, found, span, now) ==
    IF ~found THEN Panic
    ELSE LET result == serialize_span(self, span, "EnterSpan", now)
         IN  IF result.ok
             THEN Exec("returned", result, emit(self, result.buffer))
             ELSE Exec("returned", result, NoEmit)

on_exit(self, found, span, now) ==
    IF ~found THEN Panic
    ELSE LET result == serialize_span(self, span, "ExitSpan", now)
         IN  IF result.ok
             THEN Exec("returned", result, emit(self, result.buffer))
             ELSE Exec("returned", result, NoEmit)

-----------------------------------------------------------------------------
(* Construction *)

\* BunyanFormattingLayer::new; pid and hostname are read from the process
new(name, pid, hostname) ==
    [name |-> name, pid |-> pid, hostname |-> hostname, bunyan_version |-> 0]

Layers == {new("app", 7, "host-a"), new("svc", 8, "host-b")}

-----------------------------------------------------------------------------
(* Inputs: spans of the registry and events *)

Span(name, level, parent, storage) ==
    [name |-> name, level |-> level, parent |-> parent, storage |-> storage]

Event(fields, target, level) ==
    [fields |-> fields, target |-> target, level |-> level]

NoEvent == Event(<<>>, "", "INFO")

SpanIds == {1, 2}

\* the span id the sequential and the concurrent program use; it is live
\* or not as the registry changes
SeqIds == {1}

\* the sequential and the concurrent program draw from these
SeqSpans ==
    { Span(<<"a", "B">>, "ERROR", 0, Storage(<<KV("k", NumV(1))>>)),
      Span(<<"b">>, "DEBUG", 0, Storage(<<KV("k", Unserializable)>>)) }

SmallEvents ==
    { Event(<<KV("message", StrV("hi")), KV("level", NumV(2))>>, "my::target", "WARN"),
      Event(<<KV("k", Unserializable)>>, "my::target", "TRACE") }

\* the record-construction runs draw from these
Keys == {"message", "k", "level"}
Vals == {StrV("hi"), NumV(7), Unserializable}

\* the ordered mappings of at most n fields with distinct keys
RECURSIVE FieldSeqs(_)
FieldSeqs(n) ==
    IF n = 0 THEN {<<>>}
    ELSE LET shorter == FieldSeqs(n - 1)
         IN  shorter \cup
             { Append(f, KV(k, v)) :
                 f \in {g \in shorter : Len(g) = n - 1},
                 k \in Keys, v \in Vals }

DistinctKeys(f) == \A i, j \in 1..Len(f) : f[i].key = f[j].key => i = j

Targets == {"my::target", "app"}

RichEvents ==
    { Event(f, "my::target", "INFO") :
        f \in {g \in FieldSeqs(MaxFields) : DistinctKeys(g)} }
    \cup
    { Event(f, t, l) :
        f \in {<<>>, <<KV("message", StrV("hi"))>>}, t \in Targets, l \in Levels }

RichNames == {<<"r", "e", "q", "u", "e", "s", "t">>, <<"A", "b", "_", "1">>}

RichStorages ==
    { NoStorage,
      Storage(<<>>),
      Storage(<<KV("k", NumV(1)), KV("j", StrV("x"))>>),
      Storage(<<KV("message", StrV("sm")), KV("msg", StrV("m")), KV("v", NumV(9))>>),
      Storage(<<KV("j", NumV(1)), KV("bad", Unserializable)>>) }

RootSpans ==
    { Span(n, "INFO", 0, st) : n \in RichNames, st \in RichStorages }
    \cup
    { Span(<<"r", "e", "q", "u", "e", "s", "t">>, l, 0, Storage(<<KV("k", NumV(1))>>)) :
        l \in Levels }

ChildSpans ==
    { Span(<<"q">>, "TRACE", 1, Storage(<<KV("c", NumV(3))>>)),
      Span(<<"q", "b">>, "WARN", 1, NoStorage) }

Registry1(s) == [i \in {1} |-> s]
Registry2(s, c) == [i \in {1, 2} |-> IF i = 1 THEN s ELSE c]

RichRegistries ==
    {<<>>} \cup {Registry1(s) : s \in RootSpans}
           \cup {Registry2(s, c) : s \in RootSpans, c \in ChildSpans}

-----------------------------------------------------------------------------
(* State *)

LogEntry(op, id, span, event, now, x, done) ==
    [op |-> op, id |-> id, span |-> span, event |-> event, now |-> now,
     outcome |-> x.outcome, ok |-> x.ok, buffer |-> x.buffer,
     handles |-> x.handles, writes |-> done]

Threads == 1..NThreads

\* a thread whose callback has not been invoked yet
Idle == [pc |-> "idle",
         e |-> LogEntry("none", 0, NoSpanRef, NoEvent, 0,
                        Exec("none", [ok |-> FALSE, buffer |-> <<>>], NoEmit), <<>>),
         pending |-> <<>>]

Init ==
    /\ layer \in Layers
    /\ spans = <<>>
    /\ clock = 0
    /\ sink = <<>>
    /\ log = <<>>
    /\ panicked = FALSE
    /\ thr = [t \in Threads |-> Idle]

InitRec ==
    /\ layer \in Layers
    /\ spans \in RichRegistries
    /\ clock \in 0..MaxTime
    /\ sink = <<>>
    /\ log = <<>>
    /\ panicked = FALSE
    /\ thr = [t \in Threads |-> Idle]

InitConc ==
    /\ layer = new("app", 7, "host-a")
    /\ spans \in {Registry1(s) : s \in SeqSpans}
    /\ clock = 0
    /\ sink = <<>>
    /\ log = <<>>
    /\ panicked = FALSE
    /\ thr = [t \in Threads |-> Idle]

-----------------------------------------------------------------------------
(* The environment: the registry and the clock *)

NewSpan(id, span) ==
    /\ ~panicked
    /\ id \notin DOMAIN spans
    /\ span.parent = 0 \/ span.parent \in DOMAIN spans
    /\ spans' = [i \in DOMAIN spans \cup {id} |-> IF i = id THEN span ELSE spans[i]]
    /\ UNCHANGED <<layer, clock, sink, log, panicked, thr>>

CloseSpan(id) ==
    /\ ~panicked
    /\ id \in DOMAIN spans
    /\ spans' = [i \in DOMAIN spans \ {id} |-> spans[i]]
    /\ UNCHANGED <<layer, clock, sink, log, panicked, thr>>

Tick ==
    /\ ~panicked
    /\ clock < MaxTime
    /\ clock' = clock + 1
    /\ UNCHANGED <<layer, spans, sink, log, panicked, thr>>

\* ctx.span(id) and ctx.lookup_current(): id 0 is "no current span"
Lookup(id) == IF id \in DOMAIN spans THEN SpanRef(spans[id]) ELSE NoSpanRef

-----------------------------------------------------------------------------
(* Sequential program: the framework delivers one callback at a time; res  *)
(* is the result of the sink's write.                                      *)

Deliver(op, id, span, event, x, res) ==
    LET done == Performed(x.writes, res)
    IN  /\ ~panicked
        /\ sink' = DoWrites(sink, done)
        /\ log' = Append(log, LogEntry(op, id, span, event, clock, x, done))
        /\ panicked' = (x.outcome = "panicked")
        /\ UNCHANGED <<layer, spans, clock, thr>>

CallOnEvent(event, cur, res) ==
    /\ cur = 0 \/ cur \in DOMAIN spans
    /\ Deliver("event", cur, Lookup(cur), event,
               on_event(layer, event, Lookup(cur), clock), res)

CallOnEnter(id, res) ==
    Deliver("enter", id, Lookup(id), NoEvent,
            on_enter(layer, id \in DOMAIN spans, Lookup(id), clock), res)

CallOnExit(id, res) ==
    Deliver("exit", id, Lookup(id), NoEvent,
            on_exit(layer, id \in DOMAIN spans, Lookup(id), clock), res)

WriteResults == {"ok", "err"}

\* the framework may deliver another callback
CanCall == ~panicked /\ Len(log) < MaxCalls

Next ==
    \/ \E id \in SeqIds, span \in SeqSpans : NewSpan(id, span)
    \/ \E id \in SeqIds : CloseSpan(id)
    \/ Tick
    \/ \E ev \in SmallEvents, cur \in {0} \cup SeqIds, res \in WriteResults :
            CanCall /\ CallOnEvent(ev, cur, res)
    \/ \E id \in SeqIds, res \in WriteResults : CanCall /\ CallOnEnter(id, res)
    \/ \E id \in SeqIds, res \in WriteResults : CanCall /\ CallOnExit(id, res)

Spec == Init /\ [][Next]_vars

\* Record construction: the first callback after construction, over the
\* full range of registries, spans and events.
First == ~panicked /\ log = <<>>

NextRec ==
    \/ \E ev \in RichEvents, cur \in {0} \cup SpanIds, res \in WriteResults :
            First /\ CallOnEvent(ev, cur, res)
    \/ \E id \in SpanIds, res \in WriteResults : First /\ CallOnEnter(id, res)
    \/ \E id \in SpanIds, res \in WriteResults : First /\ CallOnExit(id, res)

SpecRec == InitRec /\ [][NextRec]_vars

-----------------------------------------------------------------------------
(* Concurrent program: each thread runs one callback.  Building the record *)
(* touches only the thread's own buffer; every write_all call on the sink  *)
(* is a step of its own, so calls of different threads interleave.         *)

Start(t, op, id, span, event, x) ==
    /\ thr[t].pc = "idle"
    /\ thr' = [thr EXCEPT ![t] =
                 [pc |-> IF x.outcome = "panicked" THEN "panicked"
                         ELSE IF x.writes = <<>> THEN "done" ELSE "emit",
                  e |-> LogEntry(op, id, span, event, clock, x, <<>>),
                  pending |-> x.writes]]
    /\ UNCHANGED <<layer, spans, clock, sink, log, panicked>>

ThreadOnEvent(t, event, cur) ==
    /\ cur = 0 \/ cur \in DOMAIN spans
    /\ Start(t, "event", cur, Lookup(cur), event,
             on_event(layer, event, Lookup(cur), clock))

ThreadOnEnter(t, id) ==
    Start(t, "enter", id, Lookup(id), NoEvent,
          on_enter(layer, id \in DOMAIN spans, Lookup(id), clock))

ThreadOnExit(t, id) ==
    Start(t, "exit", id, Lookup(id), NoEvent,
          on_exit(layer, id \in DOMAIN spans, Lookup(id), clock))

ThreadWrite(t, res) ==
    /\ thr[t].pc = "emit"
    /\ sink' = write_all(sink, Head(thr[t].pending), res)
    /\ LET rest == IF res = "ok" THEN Tail(thr[t].pending) ELSE <<>>
       IN  thr' = [thr EXCEPT
                     ![t].pc = IF rest = <<>> THEN "done" ELSE "emit",
                     ![t].pending = rest,
                     ![t].e.writes =
                         Append(@, [bytes |-> Head(thr[t].pending), res |-> res])]
    /\ UNCHANGED <<layer, spans, clock, log, panicked>>

NextConc ==
    \/ Tick
    \/ \E t \in Threads, ev \in SmallEvents, cur \in {0} \cup SpanIds :
            ThreadOnEvent(t, ev, cur)
    \/ \E t \in Threads, id \in SpanIds : ThreadOnEnter(t, id)
    \/ \E t \in Threads, id \in SpanIds : ThreadOnExit(t, id)
    \/ \E t \in Threads, res \in WriteResults : ThreadWrite(t, res)

SpecConc == InitConc /\ [][NextConc]_vars

-----------------------------------------------------------------------------
(* Reading the output back: what the claims below say about the sink and   *)
(* about the records in it.  A record buffer is                            *)
(*   <<Open, v, name, msg, level, hostname, pid, time, contextual.., Close>> *)

CoreKeys == <<"v", "name", "msg", "level", "hostname", "pid", "time">>

BunyanCode ==
    [l \in Levels |->
       CASE l = "ERROR" -> 50 [] l = "WARN" -> 40 [] l = "INFO" -> 30
         [] l = "DEBUG" -> 20 [] l = "TRACE" -> 10]

\* the upper-cased names of the spans used, written out
ExpectedUpper(name) ==
    CASE name = <<"r", "e", "q", "u", "e", "s", "t">> -> "REQUEST"
      [] name = <<"A", "b", "_", "1">> -> "AB_1"
      [] name = <<"q">> -> "Q"
      [] name = <<"q", "b">> -> "QB"
      [] name = <<"a", "B">> -> "AB"
      [] name = <<"b">> -> "B"
      [] name = <<"r", "q">> -> "RQ"

\* a complete JSON object followed by exactly one line terminator
CompleteLine(bytes) ==
    /\ Len(bytes) >= 3
    /\ bytes[1] = Open
    /\ bytes[Len(bytes) - 1] = Close
    /\ bytes[Len(bytes)] = NL
    /\ \A i \in 2..(Len(bytes) - 2) : bytes[i].tok = "entry"

\* a complete JSON object, without the terminator
CompleteObject(tokens) == CompleteLine(Append(tokens, NL))

Count(tokens, key) ==
    Cardinality({i \in 1..Len(tokens) : tokens[i].tok = "entry" /\ tokens[i].key = key})

CountIn(fields, key) ==
    Cardinality({i \in 1..Len(fields) : fields[i].key = key})

\* the contextual entries of a finished record buffer, as key/value pairs
Contextual(buffer) ==
    [i \in 1..(Len(buffer) - 9) |-> KV(buffer[i + 8].key, buffer[i + 8].val)]

IsNotMessageKey(kv) == kv.key # "message"

StoredFields(span) == IF span.present THEN span.storage.values ELSE <<>>

Entries == {log[i] : i \in 1..Len(log)}

WroteOk(e) == e.writes # <<>> /\ \A i \in 1..Len(e.writes) : e.writes[i].res = "ok"
WriteFailed(e) == \E i \in 1..Len(e.writes) : e.writes[i].res = "err"
Unresolved(e) == e.op \in {"enter", "exit"} /\ ~e.span.present

\* the bytes the callbacks of a log got into the sink, in callback order
RECURSIVE BytesOf(_)
BytesOf(writes) ==
    IF writes = <<>> THEN <<>>
    ELSE (IF Head(writes).res = "ok" THEN Head(writes).bytes ELSE <<>>)
         \o BytesOf(Tail(writes))

RECURSIVE SinkOf(_)
SinkOf(l) == IF l = <<>> THEN <<>> ELSE BytesOf(Head(l).writes) \o SinkOf(Tail(l))

\* the sink cut at line terminators: the lines, and what follows the last
RECURSIVE Split(_, _, _)
Split(bytes, lines, cur) ==
    IF bytes = <<>> THEN [lines |-> lines, rest |-> cur]
    ELSE IF Head(bytes) = NL THEN Split(Tail(bytes), Append(lines, cur), <<>>)
    ELSE Split(Tail(bytes), lines, Append(cur, Head(bytes)))

Lines(bytes) == Split(bytes, <<>>, <<>>).lines
Rest(bytes) == Split(bytes, <<>>, <<>>).rest

\* a step that delivers a callback, and the callback delivered
Delivered == Len(log') = Len(log) + 1
New == log'[Len(log')]

-----------------------------------------------------------------------------
(* C1 *)

Writers == {t \in Threads : WroteOk(thr[t].e)}

\* C1: threads running one callback each against a sink whose write is
\* atomic leave in the sink exactly one line per callback that wrote, each
\* line the complete record of one callback, under every interleaving; no
\* line mixes two records and no record is split across lines.
C1_NoInterleaving ==
    (\A t \in Threads : thr[t].pc \in {"done", "panicked"}) =>
        /\ Rest(sink) = <<>>
        /\ Len(Lines(sink)) = Cardinality(Writers)
        /\ \A i \in 1..Len(Lines(sink)) : CompleteObject(Lines(sink)[i])
        /\ \E f \in [1..Len(Lines(sink)) -> Writers] :
              /\ \A i, j \in 1..Len(Lines(sink)) : f[i] = f[j] => i = j
              /\ \A i \in 1..Len(Lines(sink)) : Lines(sink)[i] = thr[f[i]].e.buffer

\* every thread has written, and a later thread's line comes first
C1_Witness ==
    /\ \A t \in Threads : thr[t].pc = "done" /\ WroteOk(thr[t].e)
    /\ Len(Lines(sink)) = NThreads
    /\ Lines(sink)[1] = thr[2].e.buffer
    /\ Lines(sink)[1] # thr[1].e.buffer

-----------------------------------------------------------------------------
(* C2 *)

\* C2: every callback takes at most one writer from make_writer and makes
\* at most one write through it, exactly one when serialization succeeds;
\* what it writes is the record's complete JSON object followed by exactly
\* one line terminator; the sink is the concatenation of those lines, one
\* per callback whose write succeeded, in callback order.
C2_SingleWrite ==
    /\ \A e \in Entries :
          /\ e.handles <= 1
          /\ Len(e.writes) <= 1
          /\ (e.outcome = "returned" /\ e.ok) => (e.handles = 1 /\ Len(e.writes) = 1)
          /\ e.writes # <<>> =>
                /\ CompleteLine(e.writes[1].bytes)
                /\ e.writes[1].bytes = Append(e.buffer, NL)
    /\ sink = SinkOf(log)
    /\ Rest(sink) = <<>>
    /\ Len(Lines(sink)) = Cardinality({i \in 1..Len(log) : WroteOk(log[i])})

\* two callbacks of different kinds have written a line each
C2_Witness ==
    /\ Len(log) = 2
    /\ log[1].op = "enter" /\ WroteOk(log[1])
    /\ log[2].op = "event" /\ WroteOk(log[2])
    /\ Len(Lines(sink)) = 2

-----------------------------------------------------------------------------
(* C3 *)

SameInputs(d, e) ==
    /\ d.op = e.op
    /\ d.span = e.span
    /\ d.event = e.event
    /\ d.now = e.now

C3_Repeatable ==
    \A d, e \in Entries : SameInputs(d, e) => (d.ok = e.ok /\ d.buffer = e.buffer)

C3_Step ==
    Delivered =>
        /\ (~Unresolved(New) /\ (~New.ok \/ WriteFailed(New))) =>
              /\ New.outcome = "returned"
              /\ ~panicked'
              /\ sink' = sink
              /\ layer' = layer
        /\ (New.ok /\ WroteOk(New)) =>
              /\ CompleteObject(New.buffer)
              /\ sink' = sink \o Append(New.buffer, NL)

-----------------------------------------------------------------------------
(* C4 *)

C4_Step ==
    Delivered =>
        /\ Unresolved(New) => (sink' = sink /\ panicked')
        /\ (New.op = "event" /\ ~New.span.present /\ New.ok /\ WroteOk(New)) =>
              sink' = sink \o Append(New.buffer, NL)

C4_Entries ==
    \A e \in Entries :
        /\ Unresolved(e) =>
              (e.outcome = "panicked" /\ e.handles = 0 /\ e.writes = <<>>)
        /\ (e.op = "event" /\ ~e.span.present) =>
              /\ e.outcome = "returned"
              /\ e.ok => (e.handles = 1 /\ Len(e.writes) = 1)

\* C4: on_enter or on_exit with a span id the registry does not resolve
\* panics and writes nothing; an event with no current span returns and
\* emits its record.
C4_UnknownSpanFatal == [][C4_Step]_vars /\ []C4_Entries

\* an event outside any span was written, then an unknown id panicked
C4_Witness ==
    /\ panicked
    /\ Len(log) = 2
    /\ log[1].op = "event" /\ ~log[1].span.present /\ WroteOk(log[1])
    /\ Unresolved(log[2])
    /\ Len(Lines(sink)) = 1

-----------------------------------------------------------------------------
(* C5 *)

HasStringMessage(event) ==
    \E i \in 1..Len(event.fields) :
        event.fields[i].key = "message" /\ event.fields[i].val.ty = "str"

StringMessage(event) ==
    LET i == CHOOSE i \in 1..Len(event.fields) :
                 event.fields[i].key = "message" /\ event.fields[i].val.ty = "str"
    IN  event.fields[i].val.s

ExpectedMsg(e) ==
    LET base == IF HasStringMessage(e.event) THEN StringMessage(e.event)
                ELSE e.event.target
    IN  IF e.span.present
        THEN "[" \o ExpectedUpper(e.span.name) \o " - EVENT] " \o base
        ELSE base

\* C5: an event's msg is its `message` field when that is a string,
\* otherwise its target, prefixed with "[<SPAN NAME IN UPPER CASE> - EVENT] "
\* when there is a current span and unprefixed when there is none.
C5_EventMessage ==
    \A e \in Entries :
        e.op = "event" => e.buffer[4] = Entry("msg", StrV(ExpectedMsg(e)))

\* the spec's example: {message: "hi"} inside span "request"
C5_Witness ==
    \E e \in Entries :
        /\ e.op = "event" /\ e.span.present /\ WroteOk(e)
        /\ HasStringMessage(e.event)
        /\ e.writes[1].bytes[4] = Entry("msg", StrV("[REQUEST - EVENT] hi"))

-----------------------------------------------------------------------------
(* C6 *)

\* C6: the `message` field of an event is not copied among the record's
\* contextual fields: none of the entries that come from the event has the
\* key `message`, the key appears in the record only as often as the
\* current span stores it (at most once, never twice), and the record's
\* msg entry stays the core one.
C6_MessageConsumed ==
    \A e \in Entries :
        (e.op = "event" /\ CountIn(e.event.fields, "message") = 1 /\ e.ok) =>
            /\ \A i \in 9..(7 + Len(e.event.fields)) : e.buffer[i].key # "message"
            /\ Count(e.buffer, "message") = CountIn(StoredFields(e.span), "message")
            /\ Count(e.buffer, "message") <= 1
            /\ e.buffer[4].key = "msg"
            /\ (HasStringMessage(e.event) /\ ~e.span.present) =>
                  e.buffer[4].val = StrV(StringMessage(e.event))
            /\ Len(e.buffer) = 8 + Len(e.event.fields) + Len(StoredFields(e.span))

\* an event with `message` and another field, written inside a span that
\* stores a `message` of its own
C6_Witness ==
    \E e \in Entries :
        /\ e.op = "event" /\ WroteOk(e)
        /\ Len(e.event.fields) = 2 /\ e.event.fields[1].key = "message"
        /\ e.span.present /\ CountIn(StoredFields(e.span), "message") = 1
        /\ Count(e.writes[1].bytes, "message") = 1

-----------------------------------------------------------------------------
(* C7 *)

CoreKeySet == {CoreKeys[i] : i \in 1..7}

C7_Records ==
    \A e \in Entries :
        e.writes # <<>> =>
            LET r == e.writes[1].bytes
            IN  /\ Len(r) >= 10
                /\ r[1] = Open
                /\ \A i \in 1..7 : r[i + 1].tok = "entry" /\ r[i + 1].key = CoreKeys[i]
                /\ r[2].val = NumV(0)
                /\ r[3].val = StrV(layer.name)
                /\ r[6].val = StrV(layer.hostname)
                /\ r[7].val = NumV(layer.pid)
                /\ \A c \in CoreKeySet :
                      Count(r, c) = 1 + CountIn(e.event.fields, c)
                                      + CountIn(StoredFields(e.span), c)

\* C7: every record written starts with v, name, msg, level, hostname, pid,
\* time in this order; v, name, hostname and pid are the values fixed at
\* construction, which no step changes; a contextual field that reuses a
\* core key is appended after them and makes the key appear once more.
C7_CoreFields == []C7_Records /\ [][layer' = layer]_vars

\* two records of one layer, one of them with a contextual field `level`
C7_Witness ==
    /\ Len(log) = 2
    /\ WroteOk(log[1]) /\ WroteOk(log[2])
    /\ log[1].op # log[2].op
    /\ \E e \in Entries : Count(e.writes[1].bytes, "level") = 2

-----------------------------------------------------------------------------
(* C8 *)

\* C8: the contextual fields of an event record are the event's own fields
\* without `message`, in their order, followed by the fields stored for the
\* current span when there is one: ancestors are not walked, and a key in
\* both is emitted twice.
C8_EventContext ==
    \A e \in Entries :
        (e.op = "event" /\ e.ok) =>
            Contextual(e.buffer) =
                SelectSeq(e.event.fields, IsNotMessageKey) \o StoredFields(e.span)

\* an event with a field besides `message`, written inside a child span
\* whose parent stores fields
C8_Witness ==
    \E e \in Entries :
        /\ e.op = "event" /\ WroteOk(e)
        /\ Len(e.event.fields) = 2
        /\ CountIn(e.event.fields, "message") = 1
        /\ e.span.present /\ e.span.parent \in DOMAIN spans
        /\ StoredFields(e.span) # <<>>
        /\ spans[e.span.parent].storage.values # <<>>

-----------------------------------------------------------------------------
(* C9 *)

ExpectedSpanMsg(e) ==
    "[" \o ExpectedUpper(e.span.name) \o " - "
        \o (IF e.op = "enter" THEN "START" ELSE "END") \o "]"

\* C9: on_enter and on_exit of a live span build a record with msg
\* "[<SPAN NAME IN UPPER CASE> - START]" and "[.. - END]", the span's level
\* code, and the fields stored for the span as contextual fields; a span
\* with no stored data yields a record of the core fields only.
C9_SpanRecords ==
    \A e \in Entries :
        (e.op \in {"enter", "exit"} /\ e.span.present) =>
            /\ e.outcome = "returned"
            /\ e.buffer[4] = Entry("msg", StrV(ExpectedSpanMsg(e)))
            /\ e.buffer[5] = Entry("level", NumV(BunyanCode[e.span.level]))
            /\ e.ok =>
                  /\ Contextual(e.buffer) = StoredFields(e.span)
                  /\ Len(e.writes) = 1
                  /\ e.writes[1].bytes = Append(e.buffer, NL)
            /\ StoredFields(e.span) = <<>> => (e.ok /\ Len(e.buffer) = 9)

\* on_exit of a span with no JsonStorage wrote a record of core fields only
C9_Witness ==
    \E e \in Entries :
        /\ e.op = "exit" /\ e.span.present /\ ~e.span.storage.present
        /\ WroteOk(e)
        /\ Len(e.writes[1].bytes) = 10
        /\ sink = e.writes[1].bytes

-----------------------------------------------------------------------------
(* C10 *)

\* C10: to_bunyan_level is the table Error=50, Warn=40, Info=30, Debug=20,
\* Trace=10, injective on the five levels, and the level entry of every
\* record is the code of the span's level (enter, exit) or of the event's
\* own level (events), not of the enclosing span's.
C10_Levels ==
    /\ \A l \in Levels : to_bunyan_level(l) = BunyanCode[l]
    /\ \A l, m \in Levels : to_bunyan_level(l) = to_bunyan_level(m) => l = m
    /\ \A e \in Entries :
          /\ e.op = "event" =>
                e.buffer[5] = Entry("level", NumV(BunyanCode[e.event.level]))
          /\ (e.op \in {"enter", "exit"} /\ e.span.present) =>
                e.buffer[5] = Entry("level", NumV(BunyanCode[e.span.level]))

\* a DEBUG event written inside a span of another level
C10_Witness ==
    \E e \in Entries :
        /\ e.op = "event" /\ WroteOk(e)
        /\ e.span.present /\ e.event.level = "DEBUG" /\ e.span.level = "ERROR"
        /\ e.writes[1].bytes[5] = Entry("level", NumV(20))
====
